---- MODULE Spec2Model ----
(***************************************************************************)
(* Model of the user-account backend: the User schema (models/user.js),    *)
(* the seven request handlers of the user controller and the startup       *)
(* connection of the application module.                                   *)
(*                                                                         *)
(* Strings are sequences of UTF-16 code units, so that the length and      *)
(* format rules of the validators and the password policy are computed on  *)
(* the characters.  A request body is a function from the names of the     *)
(* fields it carries to JSON values, each with its type; a stored document *)
(* is a function from the schema's paths (and "_id") to values cast to the *)
(* path's type.                                                            *)
(*                                                                         *)
(* Every handler makes exactly one call that touches the collection, and   *)
(* everything around it (validation, hashing, comparison, signing) reads   *)
(* only the request and the result of that call.  A handler is therefore   *)
(* one atomic step taken at its store call, and any interleaving of        *)
(* concurrent requests is a sequence of such steps.                        *)
(***************************************************************************)
EXTENDS Integers, Sequences, FiniteSets, TLC

\* Bound: the number of documents ever inserted (and so of "_id" values).
MaxIds == 2

VARIABLES
    store,        \* the User collection, in natural (insertion) order
    nextId,       \* the next "_id" the store assigns
    connected,    \* whether mongoose.connect succeeded at startup
    strictQuery,  \* mongoose's strictQuery option of the installed version
    last          \* the last request handled and the response it got

vars == <<store, nextId, connected, strictQuery, last>>

----------------------------------------------------------------------------
\* Characters and strings.  A string is the sequence of its UTF-16 code
\* units.  Ascii lists the characters from the space (32) to the tilde
\* (126); the grave accent (96) has an empty entry.
Ascii ==
    <<" ", "!", "\"", "#", "$", "%", "&", "'", "(", ")", "*", "+", ",", "-",
      ".", "/", "0", "1", "2", "3", "4", "5", "6", "7", "8", "9", ":", ";",
      "<", "=", ">", "?", "@", "A", "B", "C", "D", "E", "F", "G", "H", "I",
      "J", "K", "L", "M", "N", "O", "P", "Q", "R", "S", "T", "U", "V", "W",
      "X", "Y", "Z", "[", "\\", "]", "^", "_", "", "a", "b", "c", "d", "e",
      "f", "g", "h", "i", "j", "k", "l", "m", "n", "o", "p", "q", "r", "s",
      "t", "u", "v", "w", "x", "y", "z", "{", "|", "}", "~">>

\* The code unit of an ASCII character.
Code(c) == 31 + (CHOOSE i \in 1..Len(Ascii) : Ascii[i] = c)

\* The string of a sequence of ASCII characters.
Text(chars) == [i \in 1..Len(chars) |-> Code(chars[i])]

AtSign == Code("@")
FullStop == Code(".")
QuotationMark == Code("\"")
ReverseSolidus == Code("\\")
HyphenMinus == Code("-")
PlusSign == Code("+")
LowLine == Code("_")
DigitZero == Code("0")

\* A letter in either case.
Letter(c) == {Code(c), Code(c) - 32}

LetterB == Letter("b")
LetterE == Letter("e")
LetterN == Letter("n")
LetterO == Letter("o")
LetterX == Letter("x")

\* Values used in requests.

E1 == Text(<<"a", "@", "x", ".", "i", "o">>)
E2 == Text(<<"b", "@", "x", ".", "i", "o">>)
BadEmail == Text(<<"a", "x">>)
SpacedEmail == Text(<<"a", " ", "b", "@", "x", ".", "i", "o">>)
P1 == Text(<<"A", "b", "c", "d", "e", "1">>)
P2 == Text(<<"A", "b", "c", "d", "e", "1", "!">>)
Weak == Text(<<"a", "b", "c">>)
Ann == Text(<<"A", "n", "n">>)
LongName == [i \in 1..151 |-> Code("n")]
Yes == Text(<<"y", "e", "s">>)
Employee == Text(<<"e", "m", "p", "l", "o", "y", "e", "e">>)
StrTrue == Text(<<"t", "r", "u", "e">>)
StrFalse == Text(<<"f", "a", "l", "s", "e">>)
StrZero == Text(<<"0">>)
StrOne == Text(<<"1">>)

No == Text(<<"n", "o">>)
Maybe == Text(<<"m", "a", "y", "b", "e">>)

\* JavaScript values: a request body carries strings and booleans.
Str(s) == [t |-> "string", s |-> s, b |-> FALSE]

Bool(b) == [t |-> "boolean", s |-> <<>>, b |-> b]

\* JavaScript's undefined: the value of a property an object does not have.
Undefined == [t |-> "undefined", s |-> <<>>, b |-> FALSE]

\* Caller identities the authentication middleware may put in res.locals.
Identities == {Undefined, Str(Text(<<"u", "1">>))}

Upper == Code("A")..Code("Z")
Lower == Code("a")..Code("z")
Digit == Code("0")..Code("9")
SmallHex == Code("a")..Code("f")
CapitalHex == Code("A")..Code("F")
HexLetter == SmallHex \cup CapitalHex

\* s cut or filled with c to n characters.
Pad(s, n, c) == [i \in 1..n |-> IF i <= Len(s) THEN s[i] ELSE c]

\* The positions of a character in a string.
Positions(s, c) == {i \in 1..Len(s) : s[i] = c}

Least(S) == CHOOSE i \in S : \A j \in S : i <= j

Greatest(S) == CHOOSE i \in S : \A j \in S : i >= j

\* s.split(c)
RECURSIVE Split(_, _)
Split(s, c) ==
    LET at == Positions(s, c)
    IN IF at = {} THEN <<s>>
       ELSE <<SubSeq(s, 1, Least(at) - 1)>>
                \o Split(SubSeq(s, Least(at) + 1, Len(s)), c)

\* The one string whose characters are not computed is a hash made by
\* bcrypt: "$2b$", the cost, "$" and the 22 characters of the salt are
\* written out, and the 31 characters of the digest are written as the
\* element DigestOf, which is no code unit, followed by the bytes of the
\* password they are the digest of.  No request can spell a digest from
\* characters, and two hashes are equal exactly when bcrypt makes them from
\* the same setting and the same bytes.
DigestOf == 65536

IsBcryptHash(h) == Len(h) >= 30 /\ h[30] = DigestOf

\* str.length
StrLen(s) == IF IsBcryptHash(s) THEN 60 ELSE Len(s)

\* The UTF-8 bytes of a string: one to three bytes for a code unit, four
\* for a surrogate pair, and those of U+FFFD for a surrogate without its
\* pair.
HighSurrogate(c) == c >= 55296 /\ c <= 56319

LowSurrogate(c) == c >= 56320 /\ c <= 57343

RECURSIVE Utf8(_)
Utf8(s) ==
    IF s = <<>> THEN <<>>
    ELSE IF s[1] < 128 THEN <<s[1]>> \o Utf8(Tail(s))
    ELSE IF s[1] < 2048
    THEN <<192 + (s[1] \div 64), 128 + (s[1] % 64)>> \o Utf8(Tail(s))
    ELSE IF HighSurrogate(s[1]) /\ Len(s) >= 2 /\ LowSurrogate(s[2])
    THEN LET p == 65536 + (s[1] - 55296) * 1024 + (s[2] - 56320)
         IN <<240 + (p \div 262144), 128 + ((p \div 4096) % 64),
              128 + ((p \div 64) % 64), 128 + (p % 64)>>
                \o Utf8(SubSeq(s, 3, Len(s)))
    ELSE IF HighSurrogate(s[1]) \/ LowSurrogate(s[1])
    THEN <<239, 191, 189>> \o Utf8(Tail(s))
    ELSE <<224 + (s[1] \div 4096), 128 + ((s[1] \div 64) % 64),
           128 + (s[1] % 64)>> \o Utf8(Tail(s))

\* The number of bytes of a string's UTF-8 encoding: a byte for every code
\* unit, one more from U+0080 on and one more from U+0800 on, which makes
\* six for a surrogate pair, two more than it has.
Utf8Len(s) ==
    Len(s) + Cardinality({i \in 1..Len(s) : s[i] >= 128})
           + Cardinality({i \in 1..Len(s) : s[i] >= 2048})
           - 2 * Cardinality({i \in 1..(Len(s) - 1) :
                                 HighSurrogate(s[i]) /\ LowSurrogate(s[i + 1])})

\* Whether every surrogate of a string is in a pair.
WellFormed(s) ==
    \A i \in 1..Len(s) :
        /\ HighSurrogate(s[i]) => i < Len(s) /\ LowSurrogate(s[i + 1])
        /\ LowSurrogate(s[i]) => i > 1 /\ HighSurrogate(s[i - 1])

\* All bodies that carry, for each field of a subset of DOMAIN V, one of the
\* values V gives for it.
RECURSIVE BodiesOver(_, _)
BodiesOver(V, F) ==
    IF F = {} THEN {<<>>}
    ELSE LET f == CHOOSE x \in F : TRUE
             rest == BodiesOver(V, F \ {f})
         IN rest \cup {(f :> v) @@ b : v \in V[f], b \in rest}

Has(body, f) == f \in DOMAIN body

----------------------------------------------------------------------------
\* The schema.

SchemaPaths == {"email", "password", "fname", "lname", "role", "isAdmin"}

\* The paths of a document: the declared ones, "_id" and the version key.
DocPaths == SchemaPaths \cup {"_id", "__v"}

\* The ObjectId the store gives the n-th document, as its 24 hex digits.
ObjectIdOf(n) == Pad(<<>>, 23, DigitZero) \o <<DigitZero + (n % 10)>>

\* doc.path in JavaScript: undefined for a path the document does not have.
Get(doc, path) == IF path \in DOMAIN doc THEN doc[path] ELSE Undefined

----------------------------------------------------------------------------
\* node-input-validator rules.

\* A value the validator takes for missing: absent or the empty string.
IsEmpty(body, f) == ~Has(body, f) \/ body[f] = Str(<<>>)

\* "required": present and not the empty string.
Required(body, f) == ~IsEmpty(body, f)

\* "string": typeof value is string.
StringRule(v) == v.t = "string"

\* "boolean": true, false or one of the strings 'true', 'false', '0', '1'.
BooleanRule(v) ==
    \/ v.t = "boolean"
    \/ v.t = "string"
         /\ v.s \in {StrTrue, StrFalse, StrZero, StrOne}

\* White space: the characters \s matches, trim() removes and Number()
\* skips.
WhiteSpace(c) ==
    \/ c \in {9, 10, 11, 12, 13, 32, 160, 5760, 8232, 8233, 8239, 8287,
              12288, 65279}
    \/ c >= 8192 /\ c <= 8202

\* "email": validator.js isEmail with its default options.

\* The characters beyond ASCII that an address can have: U+00A1 to U+D7FF,
\* U+F900 to U+FDCF and U+FDF0 to U+FFEF.
BeyondAscii(c) ==
    \/ c >= 161 /\ c <= 55295
    \/ c >= 63744 /\ c <= 64975
    \/ c >= 65008 /\ c <= 65519

\* The punctuation of an unquoted local part; 96 is the grave accent.
ATextPunctuation ==
    {Code(c) : c \in {"!", "#", "$", "%", "&", "'", "*", "+", "-", "/", "=",
                      "?", "^", "_", "{", "|", "}", "~"}} \cup {96}

\* A character of an unquoted local part (emailUserUtf8Part).
AText(c) ==
    \/ c \in Upper
    \/ c \in Lower
    \/ c \in Digit
    \/ c \in ATextPunctuation
    \/ BeyondAscii(c)

\* A plain character of a quoted local part: white space, a control other
\* than NUL, a printable character other than the quote and the backslash,
\* or a character from U+00A0 on.
QText(c) ==
    \/ WhiteSpace(c)
    \/ c >= 1 /\ c <= 8
    \/ c \in {11, 12, 33, 127}
    \/ c >= 14 /\ c <= 31
    \/ c >= 35 /\ c <= 91
    \/ c >= 93 /\ c <= 126
    \/ c = 160
    \/ BeyondAscii(c)

\* A character that can follow a backslash in a quoted local part.
QPair(c) ==
    \/ c >= 1 /\ c <= 9
    \/ c >= 11 /\ c <= 127
    \/ c = 160
    \/ BeyondAscii(c)

\* A quoted local part, without its first and last character
\* (quotedEmailUserUtf8): plain characters and backslash escapes.
RECURSIVE QuotedUser(_)
QuotedUser(u) ==
    IF u = <<>> THEN TRUE
    ELSE IF u[1] = ReverseSolidus
    THEN Len(u) >= 2 /\ QPair(u[2]) /\ QuotedUser(SubSeq(u, 3, Len(u)))
    ELSE QText(u[1]) /\ QuotedUser(Tail(u))

\* A character of the last label of a domain: a letter or a character
\* beyond ASCII other than U+00A9, and no white space.
TldChar(c) ==
    /\ c \in Upper \/ c \in Lower \/ (BeyondAscii(c) /\ c # 169)
    /\ ~WhiteSpace(c)

\* A character of a label of a domain: a letter, a digit, a hyphen or a
\* character from U+00A1 on that is not full-width.
LabelChar(c) ==
    \/ c \in Upper
    \/ c \in Lower
    \/ c \in Digit
    \/ c = HyphenMinus
    \/ c >= 161 /\ c <= 65535 /\ ~(c >= 65281 /\ c <= 65374)

\* isFQDN: at least two labels; the last is two or more characters of a
\* top-level domain, or "xn" and two or more letters, digits and hyphens;
\* every label has 1 to 63 label characters and neither starts nor ends
\* with a hyphen.
IsFQDN(domain) ==
    LET parts == Split(domain, FullStop)
        tld == parts[Len(parts)]
    IN /\ Len(parts) >= 2
       /\ \/ Len(tld) >= 2 /\ \A i \in 1..Len(tld) : TldChar(tld[i])
          \/ /\ Len(tld) >= 4
             /\ tld[1] \in LetterX
             /\ tld[2] \in LetterN
             /\ \A i \in 3..Len(tld) :
                   \/ tld[i] \in Upper
                   \/ tld[i] \in Lower
                   \/ tld[i] \in Digit
                   \/ tld[i] = HyphenMinus
       /\ \A i \in 1..Len(parts) :
             /\ Len(parts[i]) >= 1
             /\ Len(parts[i]) <= 63
             /\ \A j \in 1..Len(parts[i]) : LabelChar(parts[i][j])
             /\ parts[i][1] # HyphenMinus
             /\ parts[i][Len(parts[i])] # HyphenMinus

\* The local part and the domain of an address: the text before and after
\* its last "@".
LastAt(s) ==
    LET ats == Positions(s, AtSign)
    IN IF ats = {} THEN 0 ELSE Greatest(ats)

UserOf(s) == SubSeq(s, 1, LastAt(s) - 1)

DomainOf(s) == SubSeq(s, LastAt(s) + 1, Len(s))

\* isEmail: at most 254 characters, a local part of at most 64 bytes, a
\* domain of at most 254 bytes that is a domain name, and a local part that
\* is quoted or made of dot-separated runs of its characters.
IsEmail(s) ==
    /\ ~IsBcryptHash(s)
    /\ Len(s) <= 254
    /\ LET user == UserOf(s)
           domain == DomainOf(s)
           userParts == Split(user, FullStop)
       IN /\ Utf8Len(user) <= 64
          /\ Utf8Len(domain) <= 254
          /\ IsFQDN(domain)
          /\ IF user # <<>> /\ user[1] = QuotationMark
             THEN QuotedUser(SubSeq(user, 2, Len(user) - 1))
             ELSE \A i \in 1..Len(userParts) :
                     /\ userParts[i] # <<>>
                     /\ \A j \in 1..Len(userParts[i]) :
                           AText(userParts[i][j])

\* isEmail counts the bytes with encodeURI, which throws for a surrogate
\* without its pair: in the local part, or in the domain when the local
\* part is short enough for the domain to be measured.
IsEmailThrows(s) ==
    /\ ~IsBcryptHash(s)
    /\ Len(s) <= 254
    /\ ~WellFormed(s)
    /\ ~WellFormed(UserOf(s)) \/ Utf8Len(UserOf(s)) <= 64

\* "length:max": at most max characters.
LengthMax(s, max) == StrLen(s) <= max

\* "email|length:max"
EmailRules(v, max) == StringRule(v) /\ IsEmail(v.s) /\ LengthMax(v.s, max)

\* "string|length:max"
StringRules(v, max) == StringRule(v) /\ LengthMax(v.s, max)

\* "required|email|length:max"
RequiredEmail(body, max) ==
    Required(body, "email") /\ EmailRules(body["email"], max)

\* "required|string"
RequiredString(body, f) == Required(body, f) /\ StringRule(body[f])

\* A rule list without "required" is skipped for a missing field.
Optional(body, f, max) == IsEmpty(body, f) \/ StringRules(body[f], max)

OptionalEmail(body, max) ==
    IsEmpty(body, "email") \/ EmailRules(body["email"], max)

\* Whether check() throws: the email rule of a string that is not empty.
CheckThrows(body) ==
    /\ ~IsEmpty(body, "email")
    /\ StringRule(body["email"])
    /\ IsEmailThrows(body["email"].s)

\* The fields createUser's validator reports.
createUserErrors(body) ==
    {f \in {"email"} : ~RequiredEmail(body, 250)}
    \cup {f \in {"password"} : ~RequiredString(body, f)}
    \cup {f \in {"fname"} : ~Optional(body, f, 150)}
    \cup {f \in {"lname"} : ~Optional(body, f, 100)}

\* The fields logUser's validator reports.
logUserErrors(body) ==
    {f \in {"email"} : ~RequiredEmail(body, 250)}
    \cup {f \in {"password"} : ~RequiredString(body, f)}

\* The fields getUser's validator reports.
getUserErrors(body) ==
    {f \in {"email"} : ~OptionalEmail(body, 250)}
    \cup {f \in {"fname"} : ~Optional(body, f, 150)}
    \cup {f \in {"lname"} : ~Optional(body, f, 100)}

\* The fields updateUser's validator reports.
updateUserErrors(body) ==
    {f \in {"email"} : ~OptionalEmail(body, 200)}
    \cup {f \in {"lastname"} : ~Optional(body, f, 150)}
    \cup {f \in {"firstname"} : ~Optional(body, f, 150)}
    \cup {f \in {"role"} : ~(IsEmpty(body, f) \/ StringRule(body[f]))}
    \cup {f \in {"isAdmin"} : ~(IsEmpty(body, f) \/ BooleanRule(body[f]))}

----------------------------------------------------------------------------
\* The password policy (security/password): 6 to 16 characters with an upper
\* case letter, a lower case letter and a digit.

pwRulesValidate(pw) ==
    /\ StrLen(pw) >= 6
    /\ StrLen(pw) <= 16
    /\ \E i \in 1..Len(pw) : pw[i] \in Upper
    /\ \E i \in 1..Len(pw) : pw[i] \in Lower
    /\ \E i \in 1..Len(pw) : pw[i] \in Digit

----------------------------------------------------------------------------
\* bcrypt.

\* Version and cost of the hashes bcrypt.hash(pw, 12) makes.
HashPrefix == Text(<<"$", "2", "b", "$", "1", "2", "$">>)

\* The salt of the n-th call of bcrypt.hash: fresh for every call.
SaltOf(n) == Pad(<<DigitZero + (n % 10)>>, 22, FullStop)

\* bcrypt reads the first 72 bytes of a password's UTF-8 encoding; they lie
\* in its first 73 code units.  A password that is a hash is its 60 bytes.
Truncate72(pw) ==
    IF IsBcryptHash(pw) THEN pw
    ELSE LET bytes == Utf8(IF Len(pw) <= 73 THEN pw ELSE SubSeq(pw, 1, 73))
         IN IF Len(bytes) <= 72 THEN bytes ELSE SubSeq(bytes, 1, 72)

\* The hash of pw under a setting (version, cost and salt).
HashWith(pw, setting) == setting \o <<DigestOf>> \o Truncate72(pw)

bcryptHash(pw, salt) == HashWith(pw, HashPrefix \o salt)

\* compare re-hashes the candidate under the setting read from the stored
\* hash; a stored value that is no bcrypt hash compares false.
bcryptCompare(pw, h) ==
    /\ IsBcryptHash(h)
    /\ HashWith(pw, SubSeq(h, 1, 29)) = h

----------------------------------------------------------------------------
\* Mongoose queries and updates.

\* Casting to String: a boolean becomes its toString().
CastString(v) ==
    IF v.t = "string" THEN v.s ELSE IF v.b THEN StrTrue ELSE StrFalse

\* Casting to Boolean: the values that become true and those that become
\* false; any other value is a CastError.
ConvertToTrue(v) ==
    \/ v.t = "boolean" /\ v.b
    \/ v.t = "string" /\ v.s \in {StrTrue, StrOne, Yes}

ConvertToFalse(v) ==
    \/ v.t = "boolean" /\ ~v.b
    \/ v.t = "string" /\ v.s \in {StrFalse, StrZero, No}

\* Casting to ObjectId: a string of 24 hex digits, taken in lower case.
IsObjectIdString(v) ==
    /\ v.t = "string"
    /\ Len(v.s) = 24
    /\ \A i \in 1..24 : v.s[i] \in Digit \cup HexLetter

CastObjectId(v) ==
    [i \in 1..24 |->
        IF v.s[i] \in CapitalHex THEN v.s[i] + 32 ELSE v.s[i]]

\* Numbers.  A double that is neither zero nor an infinity is its sign, the
\* decimal digits of an odd natural number m and a power of two e: m times
\* two to the e.  Zero has no digits; minus zero is equal to zero in every
\* comparison of the store and is not told from it.
Num(k, neg, m, e) == [k |-> k, neg |-> neg, m |-> m, e |-> e]

Zero == Num("finite", FALSE, <<>>, 0)

One == Num("finite", FALSE, <<1>>, 0)

Null == Num("null", FALSE, <<>>, 0)

Infinity(neg) == Num("infinity", neg, <<>>, 0)

\* Natural numbers of any size are the sequences of their decimal digits,
\* the most significant first and <<>> for zero.

\* ds without its leading and without its trailing zeros.
StripLeft(ds) ==
    LET ink == {i \in 1..Len(ds) : ds[i] # 0}
    IN IF ink = {} THEN <<>> ELSE SubSeq(ds, Least(ink), Len(ds))

StripRight(ds) ==
    LET ink == {i \in 1..Len(ds) : ds[Len(ds) + 1 - i] # 0}
    IN IF ink = {} THEN <<>> ELSE SubSeq(ds, 1, Len(ds) + 1 - Least(ink))

DropZero(ds) ==
    SubSeq(ds, IF ds # <<>> /\ ds[1] = 0 THEN 2 ELSE 1, Len(ds))

Odd(ds) == ds # <<>> /\ ds[Len(ds)] % 2 = 1

\* a < b, for numbers without leading zeros.
Less(a, b) ==
    \/ Len(a) < Len(b)
    \/ /\ Len(a) = Len(b)
       /\ \E i \in 1..Len(a) :
             a[i] < b[i] /\ \A j \in 1..(i - 1) : a[j] = b[j]

\* 2 * ds: a digit is twice the digit at its place, plus the carry of the
\* place below it.
Double(ds) ==
    DropZero([i \in 1..(Len(ds) + 1) |->
                 ((IF i = 1 THEN 0 ELSE 2 * ds[i - 1]) % 10)
                     + (IF i <= Len(ds) /\ ds[i] >= 5 THEN 1 ELSE 0)])

\* ds \div 2 and ds \div 5: long division, a digit at a time.
Halve(ds) ==
    DropZero([i \in 1..Len(ds) |->
                 (ds[i] + (IF i = 1 THEN 0 ELSE 10 * (ds[i - 1] % 2))) \div 2])

Fifth(ds) ==
    DropZero([i \in 1..Len(ds) |->
                 (ds[i] + (IF i = 1 THEN 0 ELSE 10 * (ds[i - 1] % 5))) \div 5])

\* ds + 1
RECURSIVE Increment(_)
Increment(ds) ==
    IF ds = <<>> THEN <<1>>
    ELSE IF ds[Len(ds)] < 9 THEN [ds EXCEPT ![Len(ds)] = @ + 1]
    ELSE Increment(SubSeq(ds, 1, Len(ds) - 1)) \o <<0>>

\* ds * 2^k, by halves of k; the number after the first half is bound as
\* the element of a set, which computes it before the second half starts.
RECURSIVE Doubled(_, _)
Doubled(ds, k) ==
    IF k = 0 THEN ds
    ELSE IF k = 1 THEN Double(ds)
    ELSE CHOOSE r \in {Doubled(h, k - (k \div 2)) :
                          h \in {Doubled(ds, k \div 2)}} : TRUE

\* A number cut to its integer part: n, and whether anything was cut off.
Cut(n, sticky) == [n |-> n, sticky |-> sticky]

\* v \div 2^k and v \div 5^k
RECURSIVE Halved(_, _)
Halved(v, k) ==
    IF k = 0 THEN v
    ELSE IF k = 1 THEN Cut(Halve(v.n), v.sticky \/ Odd(v.n))
    ELSE CHOOSE r \in {Halved(h, k - (k \div 2)) :
                          h \in {Halved(v, k \div 2)}} : TRUE

RECURSIVE Fifthed(_, _)
Fifthed(v, k) ==
    IF k = 0 THEN v
    ELSE IF k = 1
    THEN Cut(Fifth(v.n), v.sticky \/ (v.n # <<>> /\ v.n[Len(v.n)] % 5 # 0))
    ELSE CHOOSE r \in {Fifthed(h, k - (k \div 2)) :
                          h \in {Fifthed(v, k \div 2)}} : TRUE

\* The integer part of ds * 10^x * 2^s.
Scaled(ds, x, s) ==
    IF x >= 0
    THEN LET n == ds \o [i \in 1..x |-> 0]
         IN IF s >= 0 THEN Cut(Doubled(n, s), FALSE)
            ELSE Halved(Cut(n, FALSE), 0 - s)
    ELSE Fifthed(IF s + x >= 0 THEN Cut(Doubled(ds, s + x), FALSE)
                 ELSE Halved(Cut(ds, FALSE), 0 - (s + x)),
                 0 - x)

TwoTo52 == Doubled(<<1>>, 52)

TwoTo53 == Doubled(<<1>>, 53)

TwoTo54 == Doubled(<<1>>, 54)

\* v halved until it is below 2^54, with the number h of halvings.
RECURSIVE Narrowed(_, _)
Narrowed(v, h) ==
    IF Less(v.n, TwoTo54) THEN [v |-> v, h |-> h]
    ELSE Narrowed(Halved(v, 1), h + 1)

\* The double m * 2^e with m made odd.
RECURSIVE OddForm(_, _, _)
OddForm(neg, m, e) ==
    IF Odd(m) THEN Num("finite", neg, m, e) ELSE OddForm(neg, Halve(m), e + 1)

\* The double nearest to a number between q1 * 2^e and (q1 + 1) * 2^e,
\* equal to the first when not sticky, where q1 is below 2^54 and is at
\* least 2^53 unless e is -1075: the last bit of q1 and what follows it
\* decide the rounding, ties going to the even mantissa; from 2^1024 on
\* the double is an infinity.
Rounded(neg, q1, e, sticky) ==
    LET q == Halve(q1)
        r == IF Odd(q1) /\ (sticky \/ Odd(q)) THEN Increment(q) ELSE q
    IN IF r = <<>> THEN Zero
       ELSE IF \/ ~Less(r, TwoTo53) /\ e + 1 >= 971
               \/ ~Less(r, TwoTo52) /\ e + 1 >= 972
       THEN Infinity(neg)
       ELSE OddForm(neg, r, e + 1)

\* A lower bound of the logarithm to base 2 of a number with mag digits
\* before its decimal point (after it, when mag is not positive).
Log2Floor(mag) ==
    IF mag >= 1 THEN ((mag - 1) * 3321) \div 1000
    ELSE 0 - ((((1 - mag) * 3322) + 999) \div 1000)

\* The double nearest to the number with the decimal digits ds times ten
\* to the x.  Digits beyond the first 800 cannot decide a rounding other
\* than by not being all zero.  The number is scaled by a power of two that
\* brings it to 2^54 or more, or by 2^1075 when it is below the normal
\* doubles, cut to an integer and halved to below 2^54.
Finite(neg, ds, x) ==
    LET l == StripLeft(ds)
        m == StripRight(l)
        c == IF Len(m) <= 800 THEN m ELSE SubSeq(m, 1, 800) \o <<1>>
        xc == x + (Len(l) - Len(c))
        mag == Len(c) + xc
        s == IF 54 - Log2Floor(mag) > 1075 THEN 1075
             ELSE 54 - Log2Floor(mag)
        w == Narrowed(Scaled(c, xc, s), 0)
    IN IF m = <<>> THEN Zero
       ELSE IF mag >= 310 THEN Infinity(neg)
       ELSE IF mag <= -324 THEN Zero
       ELSE Rounded(neg, w.v.n, w.h - s, w.v.sticky)

\* The value of a digit character in a base up to 16, and -1 for any other
\* character.
DigitValue(c, base) ==
    LET v == IF c \in Digit THEN c - DigitZero
             ELSE IF c \in SmallHex THEN c - Least(SmallHex) + 10
             ELSE IF c \in CapitalHex THEN c - Least(CapitalHex) + 10
             ELSE -1
    IN IF v < base THEN v ELSE -1

IsDigits(s, base) ==
    s # <<>> /\ \A i \in 1..Len(s) : DigitValue(s[i], base) >= 0

DigitValues(s, base) == [i \in 1..Len(s) |-> DigitValue(s[i], base)]

\* The bits of the number with the digits ds in base 2^k.
Bits(ds, k) ==
    [i \in 1..(k * Len(ds)) |->
        (ds[((i - 1) \div k) + 1] \div (2 ^ (k - 1 - ((i - 1) % k)))) % 2]

\* The number with the bits bs.
RECURSIVE FromBits(_)
FromBits(bs) ==
    IF bs = <<>> THEN <<>>
    ELSE LET d == Double(FromBits(SubSeq(bs, 1, Len(bs) - 1)))
         IN IF bs[Len(bs)] = 0 THEN d
            ELSE IF d = <<>> THEN <<1>>
            ELSE [d EXCEPT ![Len(d)] = @ + 1]

\* The double nearest to the number with the digits ds in base 2^k: its
\* first 54 bits, or all of them and one more, are rounded.
FromBase(ds, k) ==
    LET bs == StripLeft(Bits(ds, k))
    IN IF Len(bs) <= 53 THEN Rounded(FALSE, FromBits(bs \o <<0>>), -1, FALSE)
       ELSE Rounded(FALSE, FromBits(SubSeq(bs, 1, 54)), Len(bs) - 54,
                    \E i \in 55..Len(bs) : bs[i] = 1)

\* The value of an exponent's digits, 10000000 for any value from there
\* on: express.json() takes a body of at most 100 kB, so a literal has
\* fewer than 1000000 digits and such an exponent makes it an infinity or
\* zero.
RECURSIVE SmallInt(_)
SmallInt(ds) ==
    IF Len(StripLeft(ds)) > 7 THEN 10000000
    ELSE IF StripLeft(ds) = <<>> THEN 0
    ELSE SmallInt(SubSeq(StripLeft(ds), 1, Len(StripLeft(ds)) - 1)) * 10
             + ds[Len(ds)]

\* The string without the white space at its ends.
Trim(s) ==
    LET ink == {i \in 1..Len(s) : ~WhiteSpace(s[i])}
        kni == {i \in 1..Len(s) : ~WhiteSpace(s[Len(s) + 1 - i])}
    IN IF ink = {} THEN <<>>
       ELSE SubSeq(s, Least(ink), Len(s) + 1 - Least(kni))

Signed(s) == s # <<>> /\ s[1] \in {PlusSign, HyphenMinus}

Unsigned(s) == IF Signed(s) THEN Tail(s) ELSE s

InfinityText == Text(<<"I", "n", "f", "i", "n", "i", "t", "y">>)

\* The parts of an unsigned decimal literal: the digits before and after
\* the point, and the exponent with its sign.
ExpAt(u) == {i \in 1..Len(u) : u[i] \in LetterE}

Mantissa(u) == IF ExpAt(u) = {} THEN u ELSE SubSeq(u, 1, Least(ExpAt(u)) - 1)

Exponent(u) == SubSeq(u, Least(ExpAt(u)) + 1, Len(u))

PointAt(u) == Positions(Mantissa(u), FullStop)

Whole(u) ==
    IF PointAt(u) = {} THEN Mantissa(u)
    ELSE SubSeq(Mantissa(u), 1, Least(PointAt(u)) - 1)

Fraction(u) ==
    IF PointAt(u) = {} THEN <<>>
    ELSE SubSeq(Mantissa(u), Least(PointAt(u)) + 1, Len(Mantissa(u)))

IsDecimal(u) ==
    /\ Cardinality(PointAt(u)) <= 1
    /\ Whole(u) = <<>> \/ IsDigits(Whole(u), 10)
    /\ Fraction(u) = <<>> \/ IsDigits(Fraction(u), 10)
    /\ Whole(u) \o Fraction(u) # <<>>
    /\ ExpAt(u) # {} => IsDigits(Unsigned(Exponent(u)), 10)

DecimalValue(neg, u) ==
    LET x == IF ExpAt(u) = {} THEN 0
             ELSE LET n == SmallInt(DigitValues(Unsigned(Exponent(u)), 10))
                  IN IF Exponent(u)[1] = HyphenMinus THEN 0 - n ELSE n
    IN Finite(neg, DigitValues(Whole(u) \o Fraction(u), 10),
              x - Len(Fraction(u)))

\* The bits of a digit of a literal that starts with 0x, 0o or 0b, and 0
\* for another literal.
BaseOf(t) ==
    IF Len(t) < 2 \/ t[1] # DigitZero THEN 0
    ELSE IF t[2] \in LetterX THEN 4
    ELSE IF t[2] \in LetterO THEN 3
    ELSE IF t[2] \in LetterB THEN 1
    ELSE 0

\* Whether Number(s) is a number and not NaN.
IsNumeric(s) ==
    LET t == Trim(s)
    IN \/ t = <<>>
       \/ BaseOf(t) # 0 /\ IsDigits(SubSeq(t, 3, Len(t)), 2 ^ BaseOf(t))
       \/ Unsigned(t) = InfinityText
       \/ IsDecimal(Unsigned(t))

\* Number(s)
StringToNumber(s) ==
    LET t == Trim(s)
        neg == Signed(t) /\ t[1] = HyphenMinus
    IN IF t = <<>> THEN Zero
       ELSE IF BaseOf(t) # 0
       THEN FromBase(DigitValues(SubSeq(t, 3, Len(t)), 2 ^ BaseOf(t)),
                     BaseOf(t))
       ELSE IF Unsigned(t) = InfinityText THEN Infinity(neg)
       ELSE DecimalValue(neg, Unsigned(t))

\* Casting to Number: the empty string is null, a boolean is 1 or 0, and a
\* string is Number(string); NaN is a CastError.
NumberOk(v) ==
    \/ v.t = "boolean"
    \/ v.t = "string" /\ (v.s = <<>> \/ IsNumeric(v.s))

CastNumber(v) ==
    IF v.t = "boolean" THEN (IF v.b THEN One ELSE Zero)
    ELSE IF v.s = <<>> THEN Null
    ELSE StringToNumber(v.s)

\* Whether a request value casts to the type of a path of the documents.
CastOk(path, v) ==
    IF path = "isAdmin" THEN ConvertToTrue(v) \/ ConvertToFalse(v)
    ELSE IF path = "_id" THEN IsObjectIdString(v)
    ELSE IF path = "__v" THEN NumberOk(v)
    ELSE TRUE

\* A request value cast to the type of a path of the documents.
CastPath(path, v) ==
    IF path = "isAdmin" THEN ConvertToTrue(v)
    ELSE IF path = "_id" THEN CastObjectId(v)
    ELSE IF path = "__v" THEN CastNumber(v)
    ELSE CastString(v)

\* The paths of a filter or an update whose value raises a CastError.
CastErrors(data) == {k \in DOMAIN data \cap DocPaths : ~CastOk(k, data[k])}

\* Query casting: the values of the documents' paths are cast; the keys
\* that are no such path are removed under strictQuery and otherwise sent
\* as they are.
CastFilter(filter, strict) ==
    [k \in IF strict THEN DOMAIN filter \cap DocPaths ELSE DOMAIN filter |->
        IF k \in DocPaths THEN CastPath(k, filter[k]) ELSE filter[k]]

\* Matches taking the filter as a disjunction.
Matches_Any(doc, filter) ==
    \E k \in DOMAIN filter :
        IF k \in DOMAIN doc THEN doc[k] = filter[k]
        ELSE filter[k].t = "undefined"

\* Equality match of one document by a cast filter.  A value of undefined
\* is sent as null, which matches a document that lacks the field; no other
\* value matches a field the document lacks.
Matches(doc, filter) ==
    \A k \in DOMAIN filter :
        IF k \in DOMAIN doc THEN doc[k] = filter[k]
        ELSE filter[k].t = "undefined"

\* Model.find(filter): the matching documents in natural order.
Find(st, filter) == SelectSeq(st, LAMBDA d : Matches(d, filter))

\* The position of the document findOne / findOneAndX acts on, 0 for none.
FindOneIndex(st, filter) ==
    LET hits == {i \in 1..Len(st) : Matches(st[i], filter)}
    IN IF hits = {} THEN 0 ELSE CHOOSE i \in hits : \A j \in hits : i <= j

\* select(): the document restricted to the projected paths.
Project(doc, paths) == [k \in DOMAIN doc \cap paths |-> doc[k]]

ProjectAll(docs, paths) == [i \in 1..Len(docs) |-> Project(docs[i], paths)]

\* Whether the store refuses the update: "_id" is immutable, and setting
\* it is accepted only when it leaves the document's "_id" as it is.
ChangesId(doc, data) ==
    Has(data, "_id") /\ CastPath("_id", data["_id"]) # doc["_id"]

\* An update document is cast against the schema (strict): paths the schema
\* does not declare are dropped, the rest are $set.
ApplyUpdate(doc, data) ==
    [k \in DOMAIN doc |-> IF k \in DOMAIN data \cap DocPaths
                          THEN CastPath(k, data[k]) ELSE doc[k]]

RemoveAt(st, i) == SubSeq(st, 1, i - 1) \o SubSeq(st, i + 1, Len(st))

----------------------------------------------------------------------------
\* Handlers.  Each gives the response and the collection after the request.

Response(status, body, st) == [status |-> status, body |-> body, store |-> st]

\* body[f] || d
OrDefault(body, f, d) ==
    IF Has(body, f) /\ body[f] # Str(<<>>) /\ body[f] # Bool(FALSE)
    THEN body[f] ELSE Str(d)

\* NewUser taking isAdmin from the payload.
NewUser_FromBody(body, hashedPassword, id) ==
    ("_id" :> ObjectIdOf(id)) @@ ("__v" :> Zero) @@
    [email |-> CastString(body["email"]),
     password |-> hashedPassword,
     fname |-> CastString(OrDefault(body, "fname", <<>>)),
     lname |-> CastString(OrDefault(body, "lname", <<>>)),
     role |-> CastString(OrDefault(body, "role", Employee)),
     isAdmin |-> Has(body, "isAdmin") /\ ConvertToTrue(body["isAdmin"])]

NewUser(body, hashedPassword, id) ==
    ("_id" :> ObjectIdOf(id)) @@ ("__v" :> Zero) @@
    [email |-> CastString(body["email"]),
     password |-> hashedPassword,
     fname |-> CastString(OrDefault(body, "fname", <<>>)),
     lname |-> CastString(OrDefault(body, "lname", <<>>)),
     role |-> CastString(OrDefault(body, "role", Employee)),
     isAdmin |-> FALSE]

\* createUser saving the document before the password rules are checked.
createUser_SaveFirst(body, id, st, conn) ==
    LET errors == createUserErrors(body) IN
    IF CheckThrows(body)
    THEN Response(500, [kind |-> "error"], st)
    ELSE IF errors # {}
    THEN Response(400, [kind |-> "validation", fields |-> errors], st)
    ELSE IF ~conn
    THEN Response(500, [kind |-> "error"], st)
    ELSE LET saved == Append(st, NewUser(body,
                                         bcryptHash(body["password"].s, SaltOf(id)),
                                         id))
         IN IF ~pwRulesValidate(body["password"].s)
            THEN Response(400, [kind |-> "password rules"], saved)
            ELSE Response(201, [kind |-> "created"], saved)

\* createUser (POST /signup).
createUser(body, id, st, conn) ==
    LET errors == createUserErrors(body) IN
    IF CheckThrows(body)
    THEN Response(500, [kind |-> "error"], st)
    ELSE IF errors # {}
    THEN Response(400, [kind |-> "validation", fields |-> errors], st)
    ELSE IF ~pwRulesValidate(body["password"].s)
    THEN Response(400, [kind |-> "password rules"], st)
    ELSE IF ~conn
    THEN Response(500, [kind |-> "error"], st)
    ELSE Response(201, [kind |-> "created"],
                  Append(st, NewUser(body,
                                     bcryptHash(body["password"].s, SaltOf(id)),
                                     id)))

\* The payload jwt.sign signs.
Token(foundUser) ==
    [userId |-> Get(foundUser, "userId"), isAdmin |-> foundUser["isAdmin"]]

\* logUser answering a wrong password like an unknown email.
logUser_NotFound(body, st, conn, strict) ==
    LET errors == logUserErrors(body) IN
    IF CheckThrows(body)
    THEN Response(500, [kind |-> "error"], st)
    ELSE IF errors # {}
    THEN Response(400, [kind |-> "validation", fields |-> errors], st)
    ELSE IF ~conn
    THEN Response(500, [kind |-> "error"], st)
    ELSE LET i == FindOneIndex(st, CastFilter([email |-> body["email"]], strict))
         IN IF i = 0 \/ ~bcryptCompare(body["password"].s, st[i]["password"])
            THEN Response(404, [kind |-> "email not found"], st)
            ELSE Response(200,
                          [kind |-> "welcome",
                           userId |-> Get(st[i], "userId"),
                           token |-> Token(st[i]),
                           isAdmin |-> st[i]["isAdmin"],
                           fName |-> st[i]["fname"],
                           lName |-> st[i]["lname"],
                           email |-> st[i]["email"]],
                          st)

\* logUser (POST /login).
logUser(body, st, conn, strict) ==
    LET errors == logUserErrors(body) IN
    IF CheckThrows(body)
    THEN Response(500, [kind |-> "error"], st)
    ELSE IF errors # {}
    THEN Response(400, [kind |-> "validation", fields |-> errors], st)
    ELSE IF ~conn
    THEN Response(500, [kind |-> "error"], st)
    ELSE LET i == FindOneIndex(st, CastFilter([email |-> body["email"]], strict))
         IN IF i = 0
            THEN Response(404, [kind |-> "email not found"], st)
            ELSE IF ~bcryptCompare(body["password"].s, st[i]["password"])
            THEN Response(403, [kind |-> "password incorrect"], st)
            ELSE Response(200,
                          [kind |-> "welcome",
                           userId |-> Get(st[i], "userId"),
                           token |-> Token(st[i]),
                           isAdmin |-> st[i]["isAdmin"],
                           fName |-> st[i]["fname"],
                           lName |-> st[i]["lname"],
                           email |-> st[i]["email"]],
                          st)

\* getAllUsers (GET /all).
getAllUsers(st, conn) ==
    IF ~conn
    THEN Response(500, [kind |-> "error"], st)
    ELSE Response(200,
                  [kind |-> "users",
                   users |-> ProjectAll(st, {"fname", "lname", "isAdmin",
                                             "email", "role"})],
                  st)

\* getUser (POST /find).
getUser(body, st, conn, strict) ==
    LET errors == getUserErrors(body) IN
    IF CheckThrows(body)
    THEN Response(500, [kind |-> "error"], st)
    ELSE IF errors # {}
    THEN Response(400, [kind |-> "validation", fields |-> errors], st)
    ELSE IF ~conn
    THEN Response(500, [kind |-> "error"], st)
    ELSE IF CastErrors(body) # {}
    THEN Response(500, [kind |-> "error"], st)
    ELSE LET users == Find(st, CastFilter(body, strict))
         IN IF Len(users) = 0
            THEN Response(404, [kind |-> "users not found"], st)
            ELSE Response(200,
                          [kind |-> "users",
                           users |-> ProjectAll(users, {"_id", "fname",
                                                        "lname", "email"})],
                          st)

\* getLoggedUser (GET /me).
getLoggedUser(userId, st, conn, strict) ==
    IF ~conn
    THEN Response(500, [kind |-> "error"], st)
    ELSE LET i == FindOneIndex(st, CastFilter([userId |-> userId], strict))
         IN IF i = 0
            THEN Response(404, [kind |-> "user not found"], st)
            ELSE Response(200, [kind |-> "user", user |-> st[i]], st)

\* updateUser (PUT /me).
updateUser(userId, body, st, conn, strict) ==
    LET errors == updateUserErrors(body) IN
    IF CheckThrows(body)
    THEN Response(500, [kind |-> "error"], st)
    ELSE IF errors # {}
    THEN Response(400, [kind |-> "validation", fields |-> errors], st)
    ELSE IF ~conn
    THEN Response(500, [kind |-> "error"], st)
    ELSE IF CastErrors(body) # {}
    THEN Response(500, [kind |-> "error"], st)
    ELSE LET i == FindOneIndex(st, CastFilter([userId |-> userId], strict))
         IN IF i = 0
            THEN Response(404, [kind |-> "user not found"], st)
            ELSE IF ChangesId(st[i], body)
            THEN Response(500, [kind |-> "error"], st)
            ELSE Response(200, [kind |-> "updated"],
                          [st EXCEPT ![i] = ApplyUpdate(st[i], body)])

\* deleteUser (DELETE /me).
deleteUser(userId, st, conn, strict) ==
    IF ~conn
    THEN Response(500, [kind |-> "error"], st)
    ELSE LET i == FindOneIndex(st, CastFilter([userId |-> userId], strict))
         IN IF i = 0
            THEN Response(404, [kind |-> "user not found"], st)
            ELSE Response(200, [kind |-> "deleted"], RemoveAt(st, i))

----------------------------------------------------------------------------
\* Requests.

\* An address whose local part is a surrogate without its pair.
LoneEmail == <<55296>> \o Text(<<"@", "x", ".", "i", "o">>)

\* Well-formed registrations, and one body for each way validation fails.
RegisterBodies ==
    {[email |-> Str(E1), password |-> Str(P1)],
     [email |-> Str(E1), password |-> Str(P2)],
     [email |-> Str(E2), password |-> Str(P1)],
     [email |-> Str(E1), password |-> Str(P1), fname |-> Str(Ann),
      isAdmin |-> Bool(TRUE)]}
    \cup {[email |-> Str(SpacedEmail), password |-> Str(Weak)],
          [email |-> Str(LoneEmail), password |-> Str(P1)],
          [email |-> Str(E1), password |-> Str(Weak)],
          [email |-> Str(E1)],
          [email |-> Str(E1), password |-> Bool(TRUE)],
          [email |-> Str(E1), password |-> Str(P1), fname |-> Str(LongName)]}

LoginBodies ==
    {b \in BodiesOver([email |-> {Str(E1), Str(E2)},
                       password |-> {Str(P1), Str(P2)}],
                      {"email", "password"}) :
        {"email", "password"} \subseteq DOMAIN b}
    \cup {[email |-> Str(BadEmail), password |-> Str(P1)],
          [email |-> Str(E1)]}

QueryBodies ==
    BodiesOver([email |-> {Str(E1), Str(E2)}, fname |-> {Str(Ann)}],
               {"email", "fname"})
    \cup {[fname |-> Bool(TRUE)],
          [isAdmin |-> Str(Maybe)],
          [lastname |-> Str(Ann)],
          [password |-> Str(bcryptHash(P1, SaltOf(1)))],
          [__v |-> Str(<<11>> \o StrZero)],
          [__v |-> Str(Text(<<"x">>))]}

UpdateBodies ==
    {[email |-> Str(E1)],
     [password |-> Str(P1)],
     [password |-> Str(bcryptHash(P2, SaltOf(0)))],
     [firstname |-> Str(Ann)],
     [isAdmin |-> Str(Yes)],
     [isAdmin |-> Str(<<>>)],
     [_id |-> Str(ObjectIdOf(1))],
     [__v |-> Str(Text(<<"x">>))]}

\* The collection after the request, and the request with its response.
Handled(op, userId, body, out) ==
    /\ store' = out.store
    /\ last' = [op |-> op, userId |-> userId, req |-> body,
                status |-> out.status, body |-> out.body]
    /\ UNCHANGED <<connected, strictQuery>>

Init ==
    /\ store = <<>>
    /\ nextId = 1
    /\ connected \in BOOLEAN
    /\ strictQuery \in BOOLEAN
    /\ last = [op |-> "none", userId |-> Undefined, req |-> <<>>,
               status |-> 0, body |-> <<>>]

Register ==
    /\ nextId <= MaxIds
    /\ \E body \in RegisterBodies :
          \E out \in {createUser(body, nextId, store, connected)} :
             /\ Handled("register", Undefined, body, out)
             /\ nextId' = IF out.status = 201 THEN nextId + 1 ELSE nextId

Login ==
    /\ \E body \in LoginBodies :
          \E out \in {logUser(body, store, connected, strictQuery)} :
             Handled("login", Undefined, body, out)
    /\ UNCHANGED nextId

List ==
    /\ \E out \in {getAllUsers(store, connected)} :
          Handled("list", Undefined, <<>>, out)
    /\ UNCHANGED nextId

Query ==
    /\ \E body \in QueryBodies :
          \E out \in {getUser(body, store, connected, strictQuery)} :
             Handled("query", Undefined, body, out)
    /\ UNCHANGED nextId

SelfFetch ==
    /\ \E userId \in Identities :
          \E out \in {getLoggedUser(userId, store, connected, strictQuery)} :
             Handled("fetch", userId, <<>>, out)
    /\ UNCHANGED nextId

SelfUpdate ==
    /\ \E userId \in Identities, body \in UpdateBodies :
          \E out \in {updateUser(userId, body, store, connected, strictQuery)} :
             Handled("update", userId, body, out)
    /\ UNCHANGED nextId

SelfDelete ==
    /\ \E userId \in Identities :
          \E out \in {deleteUser(userId, store, connected, strictQuery)} :
             Handled("delete", userId, <<>>, out)
    /\ UNCHANGED nextId

Next ==
    \/ Register
    \/ Login
    \/ List
    \/ Query
    \/ SelfFetch
    \/ SelfUpdate
    \/ SelfDelete

Spec == Init /\ [][Next]_vars

----------------------------------------------------------------------------
\* Properties.

Range(f) == {f[x] : x \in DOMAIN f}

FailureStatus == {400, 403, 404, 500}

\* The positions of the documents with an email, and the first of them (the
\* one a lookup by email returns).
WithEmail(st, email) == {i \in 1..Len(st) : st[i]["email"] = email}

FirstWithEmail(st, email) ==
    CHOOSE i \in WithEmail(st, email) : \A j \in WithEmail(st, email) : i <= j

\* C1: no two stored User records have the same email, whatever sequence of
\* register, self-update and self-delete requests was served.
C1_EmailUnique ==
    \A i, j \in 1..Len(store) :
        store[i]["email"] = store[j]["email"] => i = j

\* C2: the password of every stored record is a hash produced by the
\* hashing step, never a string a caller supplied.
C2_PasswordIsHash ==
    \A i \in 1..Len(store) :
        /\ IsBcryptHash(store[i]["password"])
        /\ \E pw \in {P1, P2}, n \in 1..nextId :
              store[i]["password"] = bcryptHash(pw, SaltOf(n))

\* C3: a register request answered 201 has persisted a record with the
\* request's email and isAdmin = false, whatever isAdmin the payload carries.
C3_RegisterNeverAdmin ==
    (last.op = "register" /\ last.status = 201) =>
        \E i \in 1..Len(store) :
            /\ store[i]["_id"] = ObjectIdOf(nextId - 1)
            /\ store[i]["email"] = last.req["email"].s
            /\ store[i]["isAdmin"] = FALSE

C3_Witness ==
    /\ last.op = "register"
    /\ last.status = 201
    /\ Has(last.req, "isAdmin")
    /\ last.req["isAdmin"] = Bool(TRUE)

\* C4: when register(e, p) has been answered 201 and the next request is
\* authenticate(e, p), it is answered 200 with a token.
C4_RegisterThenAuthenticate ==
    [][(/\ last.op = "register"
        /\ last.status = 201
        /\ last'.op = "login"
        /\ Has(last'.req, "password")
        /\ last'.req["email"] = last.req["email"]
        /\ last'.req["password"] = last.req["password"])
       => (last'.status = 200 /\ "token" \in DOMAIN last'.body)]_vars

\* C5: a well-formed authenticate request that the store answers gets 404
\* exactly when no stored record has its email, 403 when the record the
\* lookup returns holds no hash whose digest is of the request's password,
\* and no token with either status.
C5_AuthenticateClassifies ==
    (last.op = "login" /\ logUserErrors(last.req) = {} /\ last.status # 500) =>
        LET found == WithEmail(store, last.req["email"].s)
        IN /\ last.status = 404 <=> found = {}
           /\ (/\ found # {}
               /\ LET h == store[FirstWithEmail(store,
                                                last.req["email"].s)]["password"]
                  IN ~(/\ IsBcryptHash(h)
                       /\ SubSeq(h, 31, Len(h))
                            = Truncate72(last.req["password"].s)))
              => last.status = 403
           /\ last.status \in {403, 404} => "token" \notin DOMAIN last.body
           /\ last.status \in {200, 403, 404}

C5_Witness ==
    /\ last.op = "login"
    /\ last.status = 403
    /\ WithEmail(store, last.req["email"].s) # {}
    /\ IsBcryptHash(store[FirstWithEmail(store, last.req["email"].s)]["password"])
    /\ Len(store) = 2

\* C6: when self-delete with an identity has been answered 200 and the next
\* request is self-fetch with the same identity, it is answered 404.
C6_DeleteThenFetch ==
    [][(/\ last.op = "delete"
        /\ last.status = 200
        /\ last'.op = "fetch"
        /\ last'.userId = last.userId)
       => last'.status = 404]_vars

\* C7: the identifier a successful authenticate returns, used as caller
\* identity by the next request, makes self-fetch return the authenticated
\* record (same email); and two different stored records never yield the
\* same identifier.
C7_IdentifierBindsRecord ==
    [][/\ (/\ last.op = "login"
           /\ last.status = 200
           /\ last'.op = "fetch"
           /\ last'.userId = last.body.userId)
          => (/\ last'.status = 200
              /\ last'.body.user["email"] = last.req["email"].s)
       /\ \A i, j \in 1..Len(store') :
             Get(store'[i], "userId") = Get(store'[j], "userId") => i = j]_vars

\* C8: a valid query that the store answers gets 404 exactly when no stored
\* record matches every supplied field, and otherwise 200 with exactly the
\* matching records (all records when no field is supplied).  A record
\* matches a field when it has the field with the supplied value, read in
\* the field's type.  Stated for the documented fields and, where the driver
\* sends the keys of a filter as they are, for every key.
C8_QueryExactConjunction ==
    (/\ last.op = "query"
     /\ getUserErrors(last.req) = {}
     /\ last.status # 500
     /\ (DOMAIN last.req \subseteq {"email", "fname", "lname"} \/ ~strictQuery)) =>
        LET hits == {i \in 1..Len(store) :
                        \A f \in DOMAIN last.req :
                            /\ f \in DOMAIN store[i]
                            /\ store[i][f] = CastPath(f, last.req[f])}
        IN /\ last.status = 404 <=> hits = {}
           /\ hits # {} =>
                 /\ last.status = 200
                 /\ Len(last.body.users) = Cardinality(hits)
                 /\ Range(last.body.users) =
                       {Project(store[i], {"_id", "fname", "lname", "email"}) :
                           i \in hits}

C8_Witness ==
    /\ last.op = "query"
    /\ last.status = 200
    /\ DOMAIN last.req = {"email", "fname"}
    /\ Len(last.body.users) < Len(store)

\* C9: a self-update or self-delete made with the identifier that the
\* authenticate request just before it returned leaves every record other
\* than the authenticated one unchanged and present.
C9_OnlyOwnRecord ==
    [][(/\ last.op = "login"
        /\ last.status = 200
        /\ last'.op \in {"update", "delete"}
        /\ last'.userId = last.body.userId)
       => \A i \in 1..Len(store) :
             i # FirstWithEmail(store, last.req["email"].s)
                => store[i] \in Range(store')]_vars

\* C10: a request answered 400, 403, 404 or 500 leaves the collection as it
\* was; register checks the schema, then the password rules, and persists
\* nothing when either fails: where the schema check ends without throwing,
\* its failure is a 400 with the validation errors, and the failure of the
\* password rules after it a 400 with the password message.
C10_NoPartialSuccess ==
    [][/\ last'.status \in FailureStatus => store' = store
       /\ (/\ last'.op = "register"
           /\ ~CheckThrows(last'.req)
           /\ createUserErrors(last'.req) # {})
          => (/\ last'.status = 400
              /\ last'.body.kind = "validation"
              /\ store' = store)
       /\ (/\ last'.op = "register"
           /\ ~CheckThrows(last'.req)
           /\ createUserErrors(last'.req) = {}
           /\ ~pwRulesValidate(last'.req["password"].s))
          => (/\ last'.status = 400
              /\ last'.body.kind = "password rules"
              /\ store' = store)]_vars

C10_Witness ==
    /\ last.op = "register"
    /\ last.status = 400
    /\ last.body.kind = "password rules"
    /\ Len(store) = 1

====
